---- MODULE Spec2Model ----
(***************************************************************************)
(* Model of src/monitor/update.py: the intraday portfolio monitor.         *)
(*                                                                         *)
(* Text is a sequence of one-character strings, a Python float is an exact *)
(* rational <<n, d>> with d > 0 in lowest terms, NaN is <<0, 0>> and None  *)
(* is the empty tuple.  A dict is a record; a key the code never sets is a *)
(* field the record does not have.                                         *)
(***************************************************************************)
EXTENDS Integers, Sequences, FiniteSets, TLC

VARIABLES
    pc,            \* position of main(): config, fetch, aggregate, news, write, done,
                   \* aborted; call and returned for a function called on its own
    exc,           \* the step whose exception propagated out of main(), or "none"
    tickers_env,   \* os.getenv("TICKERS", "")
    weights_env,   \* os.getenv("WEIGHTS", "")
    tickers,       \* main's resolved ticker list
    weights,       \* main's normalized weights, or None
    items,         \* main's list of snapshots
    port_pct,      \* main's portfolio percent change
    enriched,      \* number of items the news loop has finished
    file,          \* contents of data/latest.json
    opens,         \* number of times data/latest.json was opened for writing
    md_log,        \* market-data queries issued so far, one ticker per yf.download call
    md_ret,        \* what each of those queries did: "raise", "empty", "incomplete", "ok"
    news_log,      \* indices of the items for which gd.article_search was called
    news_ret,      \* what each of those calls did: "raise", "empty" or "table"
    clock,         \* datetime.now(timezone.utc), in ticks
    args,          \* arguments of a function called directly, outside main()
    ret            \* its return value

vars ==
    <<pc, exc, tickers_env, weights_env, tickers, weights, items, port_pct, enriched,
      file, opens, md_log, md_ret, news_log, news_ret, clock, args, ret>>

-----------------------------------------------------------------------------
(* Bounds of the model.                                                    *)

MaxTickersEnvLen == 3
MaxWeightsEnvLen == 4
MaxRows == 1
MaxArticles == 1

-----------------------------------------------------------------------------
(* Python values.                                                          *)

None == <<>>
NaN == <<0, 0>>
ZeroDivisionError == <<0, 0, 1>>

Abs(n) == IF n < 0 THEN -n ELSE n

RECURSIVE Gcd(_, _)
Gcd(a, b) == IF b = 0 THEN a ELSE Gcd(b, a % b)

Rat(n, d) ==
    LET g == Gcd(Abs(n), Abs(d))
        s == IF d < 0 THEN -1 ELSE 1
    IN  <<(s * n) \div g, (s * d) \div g>>

Int2Rat(n) == <<n, 1>>
IsNaN(a) == a[2] = 0

\* Float arithmetic: NaN is contagious and compares false with everything; a
\* division by zero raises.
RatAdd(a, b) ==
    IF IsNaN(a) \/ IsNaN(b) THEN NaN ELSE Rat(a[1] * b[2] + b[1] * a[2], a[2] * b[2])
RatSub(a, b) ==
    IF IsNaN(a) \/ IsNaN(b) THEN NaN ELSE Rat(a[1] * b[2] - b[1] * a[2], a[2] * b[2])
RatMul(a, b) ==
    IF IsNaN(a) \/ IsNaN(b) THEN NaN ELSE Rat(a[1] * b[1], a[2] * b[2])
RatDiv(a, b) ==
    IF IsNaN(b) THEN NaN
    ELSE IF b[1] = 0 THEN ZeroDivisionError
    ELSE IF IsNaN(a) THEN NaN
    ELSE Rat(a[1] * b[2], a[2] * b[1])
RatGe(a, b) == ~IsNaN(a) /\ ~IsNaN(b) /\ a[1] * b[2] >= b[1] * a[2]
RatGt(a, b) == ~IsNaN(a) /\ ~IsNaN(b) /\ a[1] * b[2] > b[1] * a[2]
RatAbs(a) == <<Abs(a[1]), a[2]>>

RECURSIVE RatSum(_)
RatSum(s) == IF s = <<>> THEN Int2Rat(0) ELSE RatAdd(Head(s), RatSum(Tail(s)))

SeqsUpTo(S, n) == UNION {[1..k -> S] : k \in 0..n}

-----------------------------------------------------------------------------
(* Text: str.split(","), str.strip(), str.upper(), float(str).             *)

Space == " "
Comma == ","

RECURSIVE Split(_)
Split(s) ==
    IF s = <<>> THEN <<<<>>>>
    ELSE LET rest == Split(Tail(s))
         IN  IF Head(s) = Comma THEN <<<<>>>> \o rest
             ELSE <<<<Head(s)>> \o Head(rest)>> \o Tail(rest)

RECURSIVE LStrip(_)
LStrip(s) == IF s # <<>> /\ Head(s) = Space THEN LStrip(Tail(s)) ELSE s

RECURSIVE RStrip(_)
RStrip(s) ==
    IF s # <<>> /\ s[Len(s)] = Space THEN RStrip(SubSeq(s, 1, Len(s) - 1)) ELSE s

Strip(s) == RStrip(LStrip(s))

UpperChar(c) == CASE c = "a" -> "A" [] c = "b" -> "B" [] OTHER -> c
Upper(s) == [k \in 1..Len(s) |-> UpperChar(s[k])]

Digits == {"0", "1", "2", "3", "4", "5", "6", "7", "8", "9"}
DigitVal(c) ==
    CASE c = "0" -> 0 [] c = "1" -> 1 [] c = "2" -> 2 [] c = "3" -> 3 [] c = "4" -> 4
      [] c = "5" -> 5 [] c = "6" -> 6 [] c = "7" -> 7 [] c = "8" -> 8 [] c = "9" -> 9

RECURSIVE Decimal(_)
Decimal(s) ==
    IF s = <<>> THEN 0 ELSE 10 * Decimal(SubSeq(s, 1, Len(s) - 1)) + DigitVal(s[Len(s)])

IsDigits(s) == s # <<>> /\ \A k \in 1..Len(s) : s[k] \in Digits

\* float(text) over the alphabet of the model: surrounding blanks are ignored, one
\* sign may lead, at least one digit follows; anything else is a ValueError.
Float(s) ==
    LET t == Strip(s)
        u == IF t # <<>> /\ Head(t) = "-" THEN Tail(t) ELSE t
    IN  IF ~IsDigits(u) THEN [exc |-> TRUE, value |-> None]
        ELSE [exc |-> FALSE,
              value |-> Int2Rat(IF t # u THEN -Decimal(u) ELSE Decimal(u))]

-----------------------------------------------------------------------------
(* Configuration resolution: main(), the TICKERS and WEIGHTS variables.    *)

DEFAULT_TICKERS ==
    << <<"N", "T", "S", "K">>, <<"K", "L", "A", "R">>, <<"F", "I", "G">>,
       <<"N", "A", "V", "N">> >>

\* [t.strip().upper() for t in tickers_env.split(",") if t.strip()]
RECURSIVE CleanTickers(_)
CleanTickers(parts) ==
    IF parts = <<>> THEN <<>>
    ELSE IF Strip(Head(parts)) # <<>>
         THEN <<Upper(Strip(Head(parts)))>> \o CleanTickers(Tail(parts))
         ELSE CleanTickers(Tail(parts))

ResolveTickers(env) ==
    LET listed == CleanTickers(Split(env))
    IN  IF listed # <<>> THEN listed ELSE DEFAULT_TICKERS

\* [float(x.strip()) for x in weights_env.split(",")]: the first ValueError ends it.
ParseWeights(env) ==
    LET parts == Split(env)
        parsed == [k \in 1..Len(parts) |-> Float(Strip(parts[k]))]
    IN  IF \E k \in 1..Len(parts) : parsed[k].exc
        THEN [exc |-> TRUE, value |-> <<>>]
        ELSE [exc |-> FALSE, value |-> [k \in 1..Len(parts) |-> parsed[k].value]]

\* The count and sum test and the normalisation, lines 88-90.
Normalize(w, n) ==
    IF Len(w) = n /\ RatGt(RatSum(w), Int2Rat(0))
    THEN [k \in 1..Len(w) |-> RatDiv(w[k], RatSum(w))]
    ELSE None

\* Faulty variant of ResolveWeights: the try statement has no except clause.
ResolveWeights_noexcept(env, n) ==
    IF env = <<>> THEN [exc |-> FALSE, weights |-> None]
    ELSE LET w == ParseWeights(env)
         IN  IF w.exc THEN [exc |-> TRUE, weights |-> None]
             ELSE [exc |-> FALSE, weights |-> Normalize(w.value, n)]

\* Lines 84-92; exc tells whether an exception leaves the try statement.
ResolveWeights(env, n) ==
    IF env = <<>> THEN [exc |-> FALSE, weights |-> None]
    ELSE LET w == ParseWeights(env)
         IN  IF w.exc THEN [exc |-> FALSE, weights |-> None]
             ELSE [exc |-> FALSE, weights |-> Normalize(w.value, n)]

-----------------------------------------------------------------------------
(* pct_change and fetch_intraday.                                          *)

\* Faulty variant of pct_change: the test for a zero open is missing.
pct_change_unguarded(open_price, last_price) ==
    IF open_price = None \/ last_price = None THEN None
    ELSE IF RatDiv(RatSub(last_price, open_price), open_price) = ZeroDivisionError
    THEN ZeroDivisionError
    ELSE RatMul(RatDiv(RatSub(last_price, open_price), open_price), Int2Rat(100))

pct_change(open_price, last_price) ==
    IF open_price = None \/ last_price = None \/ open_price = Int2Rat(0) THEN None
    ELSE RatMul(RatDiv(RatSub(last_price, open_price), open_price), Int2Rat(100))

NoDataError == "Sem dados intraday (ticker pode nao existir na fonte)."
NoCandlesError == "Sem candles validos apos limpeza."

\* Faulty variant of Dropna: dropna(subset=["Close"]).
Dropna_close_only(rows) == SelectSeq(rows, LAMBDA r : r.Close # NaN)

\* df.dropna(): the rows with no NaN in any column.
Dropna(rows) == SelectSeq(rows, LAMBDA r : r.Open # NaN /\ r.Close # NaN)

\* .to_pydatetime().replace(tzinfo=timezone.utc).isoformat(): the index value is
\* relabelled as UTC, not converted.
IsoUtc(ts) == [wall |-> ts, tz |-> "+00:00"]

\* reply is what yf.download does: raises, returns None, or returns a table.
fetch_intraday(ticker, reply) ==
    IF reply.kind = "raise" THEN [exc |-> TRUE, value |-> None]
    ELSE IF reply.kind = "none" \/ reply.rows = <<>>
    THEN [exc |-> FALSE, value |-> [ticker |-> ticker, error |-> NoDataError]]
    ELSE LET df == Dropna(reply.rows)
         IN  IF df = <<>>
             THEN [exc |-> FALSE,
                   value |-> [ticker |-> ticker, error |-> NoCandlesError]]
             ELSE LET open_day == df[1].Open
                      last == df[Len(df)].Close
                      p == pct_change(open_day, last)
                  IN  IF p = ZeroDivisionError THEN [exc |-> TRUE, value |-> None]
                      ELSE [exc |-> FALSE,
                            value |-> [ticker |-> ticker,
                                       open |-> open_day,
                                       last |-> last,
                                       pct |-> p,
                                       last_timestamp_utc |-> IsoUtc(df[Len(df)].ts)]]

OpenPrices == {NaN, Int2Rat(0), Int2Rat(100)}
ClosePrices == {NaN, Int2Rat(95), Int2Rat(104)}

\* The tables the provider can return: up to MaxRows candles, stamped in order.
DataFrames ==
    {[k \in 1..Len(f) |-> [ts |-> k, Open |-> f[k][1], Close |-> f[k][2]]] :
        f \in SeqsUpTo(OpenPrices \X ClosePrices, MaxRows)}

MarketReplies ==
    {[kind |-> "raise", rows |-> <<>>], [kind |-> "none", rows |-> <<>>]}
        \cup {[kind |-> "df", rows |-> r] : r \in DataFrames}

\* What a reply amounts to: the call raised, it brought no candle at all, it
\* brought only candles with a missing field, or it brought a complete candle.
MarketOutcome(reply) ==
    IF reply.kind = "raise" THEN "raise"
    ELSE IF reply.kind = "none" \/ reply.rows = <<>> THEN "empty"
    ELSE IF \E k \in 1..Len(reply.rows) :
                reply.rows[k].Open # NaN /\ reply.rows[k].Close # NaN
         THEN "ok"
         ELSE "incomplete"

-----------------------------------------------------------------------------
(* fetch_news_gdelt.                                                       *)

SeenDates == {1, 2}

\* What the news provider can do with one request.  construct is the outcome of
\* GdeltDoc() and Filters(...), which run before the try statement; kind is the
\* outcome of gd.article_search(f).
NewsTables ==
    {[has_seendate |-> TRUE, rows |-> r] : r \in SeqsUpTo(SeenDates, MaxArticles) \ {<<>>}}
        \cup {[has_seendate |-> FALSE, rows |-> [k \in 1..n |-> 0]] : n \in 1..MaxArticles}

NewsReplies ==
    {[construct |-> "raise", kind |-> "none", has_seendate |-> FALSE, rows |-> <<>>],
     [construct |-> "ok", kind |-> "raise", has_seendate |-> FALSE, rows |-> <<>>],
     [construct |-> "ok", kind |-> "none", has_seendate |-> FALSE, rows |-> <<>>],
     [construct |-> "ok", kind |-> "table", has_seendate |-> FALSE, rows |-> <<>>]}
        \cup {[construct |-> "ok", kind |-> "table", has_seendate |-> t.has_seendate,
               rows |-> t.rows] : t \in NewsTables}

NewsOutcome(reply) ==
    IF reply.kind = "raise" THEN "raise"
    ELSE IF reply.kind = "none" \/ reply.rows = <<>> THEN "empty"
    ELSE "table"

\* articles.sort_values("seendate", ascending=False)
RECURSIVE InsertDesc(_, _)
InsertDesc(x, s) ==
    IF s = <<>> THEN <<x>>
    ELSE IF x > Head(s) THEN <<x>> \o s
    ELSE <<Head(s)>> \o InsertDesc(x, Tail(s))

RECURSIVE SortDesc(_)
SortDesc(s) == IF s = <<>> THEN <<>> ELSE InsertDesc(Head(s), SortDesc(Tail(s)))

Min(a, b) == IF a < b THEN a ELSE b

GdeltError == [error |-> "Falha ao buscar noticias no GDELT"]

\* One row of the result: r.get(key, "") for each of the four keys.
NewsRow(has_seendate, seen) ==
    [title |-> "title", url |-> "url",
     seendate |-> IF has_seendate THEN seen ELSE "",
     domain |-> "domain"]

\* Faulty variant of fetch_news_gdelt: the article search is outside the try.
fetch_news_gdelt_propagate(query, hours_back, max_n, reply) ==
    IF reply.construct = "raise" THEN [exc |-> TRUE, query |-> FALSE, value |-> <<>>]
    ELSE IF reply.kind = "raise" THEN [exc |-> TRUE, query |-> TRUE, value |-> <<>>]
    ELSE IF reply.kind = "none" \/ reply.rows = <<>>
    THEN [exc |-> FALSE, query |-> TRUE, value |-> <<>>]
    ELSE LET articles == IF reply.has_seendate THEN SortDesc(reply.rows) ELSE reply.rows
             head == SubSeq(articles, 1, Min(max_n, Len(articles)))
         IN  [exc |-> FALSE, query |-> TRUE,
              value |-> [k \in 1..Len(head) |-> NewsRow(reply.has_seendate, head[k])]]

\* exc: an exception leaves the function; query: gd.article_search was called.
fetch_news_gdelt(query, hours_back, max_n, reply) ==
    IF reply.construct = "raise" THEN [exc |-> TRUE, query |-> FALSE, value |-> <<>>]
    ELSE IF reply.kind = "raise"
    THEN [exc |-> FALSE, query |-> TRUE, value |-> <<GdeltError>>]
    ELSE IF reply.kind = "none" \/ reply.rows = <<>>
    THEN [exc |-> FALSE, query |-> TRUE, value |-> <<>>]
    ELSE LET articles == IF reply.has_seendate THEN SortDesc(reply.rows) ELSE reply.rows
             head == SubSeq(articles, 1, Min(max_n, Len(articles)))
         IN  [exc |-> FALSE, query |-> TRUE,
              value |-> [k \in 1..Len(head) |-> NewsRow(reply.has_seendate, head[k])]]

-----------------------------------------------------------------------------
(* main(): aggregation, the news rule, the output document.                *)

ThresholdPct == 5
NewsHoursBack == 72
NewsMaxN == 5

Get(it, key) == IF key \in DOMAIN it THEN it[key] ELSE None

SetKey(it, key, v) == [f \in DOMAIN it \cup {key} |-> IF f = key THEN v ELSE it[f]]

\* [it["pct"] for it in items if it.get("pct") is not None]
RECURSIVE ValidPcts(_)
ValidPcts(its) ==
    IF its = <<>> THEN <<>>
    ELSE IF Get(Head(its), "pct") # None
         THEN <<Head(its).pct>> \o ValidPcts(Tail(its))
         ELSE ValidPcts(Tail(its))

\* Faulty variant of PortfolioPct: the mean divides by the number of tickers.
PortfolioPct_div_n(w, its, n) ==
    LET valid_pcts == ValidPcts(its)
    IN  IF w # None /\ Len(valid_pcts) = n
        THEN RatSum([k \in 1..n |-> RatMul(w[k], its[k].pct)])
        ELSE IF valid_pcts # <<>>
             THEN RatDiv(RatSum(valid_pcts), Int2Rat(n))
             ELSE None

\* Lines 99-103.
PortfolioPct(w, its, n) ==
    LET valid_pcts == ValidPcts(its)
    IN  IF w # None /\ Len(valid_pcts) = n
        THEN RatSum([k \in 1..n |-> RatMul(w[k], its[k].pct)])
        ELSE IF valid_pcts # <<>>
             THEN RatDiv(RatSum(valid_pcts), Int2Rat(Len(valid_pcts)))
             ELSE None

\* Faulty variant of NeedsNews: abs(p) > 5.0.
NeedsNews_gt(it) ==
    LET p == Get(it, "pct")
    IN  p # None /\ RatGt(RatAbs(p), Int2Rat(5))

\* Line 108: p is not None and abs(p) >= 5.0
NeedsNews(it) ==
    LET p == Get(it, "pct")
    IN  p # None /\ RatGe(RatAbs(p), Int2Rat(ThresholdPct))

\* Faulty variant of Document: the snapshots with an error are left out.
Document_drop_errors(now, tks, port, its) ==
    [generated_at_utc |-> now,
     tickers |-> tks,
     portfolio_pct |-> port,
     threshold_pct |-> Int2Rat(5),
     items |-> SelectSeq(its, LAMBDA it : "error" \notin DOMAIN it)]

\* Lines 114-120.
Document(now, tks, port, its) ==
    [generated_at_utc |-> now,
     tickers |-> tks,
     portfolio_pct |-> port,
     threshold_pct |-> Int2Rat(ThresholdPct),
     items |-> its]

\* What a json.dump interrupted by an exception leaves in the truncated file.
PartialFile == [partial |-> TRUE]

-----------------------------------------------------------------------------
(* The run of main().                                                      *)

\* The document a previous run left in data/latest.json.
PrevDoc ==
    Document(0, <<<<"O", "L", "D">>>>, None,
             <<[ticker |-> <<"O", "L", "D">>, error |-> NoDataError, news |-> <<>>]>>)

NoCall == [fn |-> "none"]

\* The environments a run of main() is started in.
MainEnvs ==
    {[TICKERS |-> <<>>, WEIGHTS |-> <<>>],
     [TICKERS |-> <<"a", ",", "B">>, WEIGHTS |-> <<>>],
     [TICKERS |-> <<"a", ",", "B">>, WEIGHTS |-> <<"1", ",", "3">>],
     [TICKERS |-> <<"a", ",", "B">>, WEIGHTS |-> <<"3", ",", "-", "1">>],
     [TICKERS |-> <<"a", ",", "B">>, WEIGHTS |-> <<"1">>],
     [TICKERS |-> <<" ", "b", ",">>, WEIGHTS |-> <<"3">>]}

Init ==
    /\ pc = "config"
    /\ exc = "none"
    /\ \E env \in MainEnvs : tickers_env = env.TICKERS /\ weights_env = env.WEIGHTS
    /\ tickers = <<>>
    /\ weights = None
    /\ items = <<>>
    /\ port_pct = None
    /\ enriched = 0
    /\ file = PrevDoc
    /\ opens = 0
    /\ md_log = <<>>
    /\ md_ret = <<>>
    /\ news_log = <<>>
    /\ news_ret = <<>>
    /\ clock = 1
    /\ args = NoCall
    /\ ret = None

\* Lines 79-92.
main_config ==
    /\ pc = "config"
    /\ LET tks == ResolveTickers(tickers_env)
           r == ResolveWeights(weights_env, Len(tks))
       IN  /\ tickers' = tks
           /\ weights' = r.weights
           /\ pc' = IF r.exc THEN "aborted" ELSE "fetch"
           /\ exc' = IF r.exc THEN "config" ELSE exc
    /\ clock' = clock + 1
    /\ UNCHANGED <<tickers_env, weights_env, items, port_pct, enriched, file, opens,
                   md_log, md_ret, news_log, news_ret, args, ret>>

\* Lines 95-96, one iteration.
main_fetch ==
    /\ pc = "fetch"
    /\ Len(items) < Len(tickers)
    /\ \E reply \in MarketReplies :
        LET t == tickers[Len(items) + 1]
            r == fetch_intraday(t, reply)
        IN  /\ md_log' = Append(md_log, t)
            /\ md_ret' = Append(md_ret, MarketOutcome(reply))
            /\ IF r.exc
               THEN /\ pc' = "aborted"
                    /\ exc' = "fetch"
                    /\ items' = items
               ELSE /\ items' = Append(items, r.value)
                    /\ pc' = IF Len(items) + 1 = Len(tickers) THEN "aggregate" ELSE "fetch"
                    /\ exc' = exc
    /\ clock' = clock + 1
    /\ UNCHANGED <<tickers_env, weights_env, tickers, weights, port_pct, enriched, file,
                   opens, news_log, news_ret, args, ret>>

\* Lines 99-103.
main_aggregate ==
    /\ pc = "aggregate"
    /\ port_pct' = PortfolioPct(weights, items, Len(tickers))
    /\ pc' = IF items = <<>> THEN "write" ELSE "news"
    /\ clock' = clock + 1
    /\ UNCHANGED <<exc, tickers_env, weights_env, tickers, weights, items, enriched, file,
                   opens, md_log, md_ret, news_log, news_ret, args, ret>>

\* Lines 106-112, one iteration.
main_news ==
    /\ pc = "news"
    /\ enriched < Len(items)
    /\ LET k == enriched + 1
           it == items[k]
           next == IF k = Len(items) THEN "write" ELSE "news"
       IN  IF NeedsNews(it)
           THEN \E reply \in NewsReplies :
                   LET r == fetch_news_gdelt(it.ticker, NewsHoursBack, NewsMaxN, reply)
                   IN  /\ news_log' = IF r.query THEN Append(news_log, k) ELSE news_log
                       /\ news_ret' = IF r.query THEN Append(news_ret, NewsOutcome(reply))
                                      ELSE news_ret
                       /\ IF r.exc
                          THEN /\ pc' = "aborted"
                               /\ exc' = "news"
                               /\ UNCHANGED <<items, enriched>>
                          ELSE /\ items' = [items EXCEPT ![k] = SetKey(it, "news", r.value)]
                               /\ enriched' = k
                               /\ pc' = next
                               /\ exc' = exc
           ELSE /\ items' = [items EXCEPT ![k] = SetKey(it, "news", <<>>)]
                /\ enriched' = k
                /\ pc' = next
                /\ UNCHANGED <<exc, news_log, news_ret>>
    /\ clock' = clock + 1
    /\ UNCHANGED <<tickers_env, weights_env, tickers, weights, port_pct, file, opens,
                   md_log, md_ret, args, ret>>

\* Lines 114-124.  os.makedirs or open may raise before the file is touched;
\* json.dump may raise after open(..., "w") has truncated it.
WriteOutcomes == {"ok", "makedirs_raise", "open_raise", "dump_raise"}

\* Faulty variant of main_write: the document is written inside the news loop.
main_write_early ==
    /\ pc \in {"news", "write"}
    /\ \E outcome \in WriteOutcomes :
        /\ file' = CASE outcome = "ok" -> [generated_at_utc |-> clock,
                                          tickers |-> tickers,
                                          portfolio_pct |-> port_pct,
                                          threshold_pct |-> Int2Rat(5),
                                          items |-> items]
                     [] outcome = "dump_raise" -> PartialFile
                     [] OTHER -> file
        /\ opens' = IF outcome \in {"ok", "dump_raise"} THEN opens + 1 ELSE opens
        /\ pc' = IF outcome = "ok" THEN "done" ELSE "aborted"
        /\ exc' = IF outcome = "ok" THEN exc ELSE "write"
    /\ clock' = clock + 1
    /\ UNCHANGED <<tickers_env, weights_env, tickers, weights, items, port_pct, enriched,
                   md_log, md_ret, news_log, news_ret, args, ret>>

main_write ==
    /\ pc = "write"
    /\ \E outcome \in WriteOutcomes :
        /\ file' = CASE outcome = "ok" -> Document(clock, tickers, port_pct, items)
                     [] outcome = "dump_raise" -> PartialFile
                     [] OTHER -> file
        /\ opens' = IF outcome \in {"ok", "dump_raise"} THEN opens + 1 ELSE opens
        /\ pc' = IF outcome = "ok" THEN "done" ELSE "aborted"
        /\ exc' = IF outcome = "ok" THEN exc ELSE "write"
    /\ clock' = clock + 1
    /\ UNCHANGED <<tickers_env, weights_env, tickers, weights, items, port_pct, enriched,
                   md_log, md_ret, news_log, news_ret, args, ret>>

Next == main_config \/ main_fetch \/ main_aggregate \/ main_news \/ main_write

Spec == Init /\ [][Next]_vars

-----------------------------------------------------------------------------
(* The functions called on their own: configuration resolution over every  *)
(* short environment text, pct_change and fetch_intraday over every input. *)

TickersChars == {Comma, Space, "a", "B"}
WeightsChars == {Comma, Space, "1", "3", "-"}

TickersEnvs == SeqsUpTo(TickersChars, MaxTickersEnvLen)
WeightsEnvs == SeqsUpTo(WeightsChars, MaxWeightsEnvLen)

PctArgs ==
    {None, Int2Rat(0), Int2Rat(95), Int2Rat(100), Int2Rat(104), Int2Rat(-100), Rat(1, 2)}

Calls ==
    {[fn |-> "pct_change", open_price |-> o, last_price |-> l] :
        o \in PctArgs, l \in PctArgs}
        \cup {[fn |-> "fetch_intraday", ticker |-> <<"A">>, reply |-> r] :
                r \in MarketReplies}

InitFn ==
    /\ \/ /\ pc = "config"
          /\ tickers_env \in TickersEnvs
          /\ weights_env \in WeightsEnvs
          /\ args = NoCall
       \/ /\ pc = "call"
          /\ tickers_env = <<>>
          /\ weights_env = <<>>
          /\ args \in Calls
    /\ exc = "none"
    /\ tickers = <<>>
    /\ weights = None
    /\ items = <<>>
    /\ port_pct = None
    /\ enriched = 0
    /\ file = PrevDoc
    /\ opens = 0
    /\ md_log = <<>>
    /\ md_ret = <<>>
    /\ news_log = <<>>
    /\ news_ret = <<>>
    /\ clock = 1
    /\ ret = None

call_pct_change ==
    /\ pc = "call"
    /\ args.fn = "pct_change"
    /\ LET r == pct_change(args.open_price, args.last_price)
       IN  IF r = ZeroDivisionError
           THEN pc' = "aborted" /\ exc' = "pct_change" /\ ret' = ret
           ELSE pc' = "returned" /\ exc' = exc /\ ret' = r
    /\ UNCHANGED <<tickers_env, weights_env, tickers, weights, items, port_pct, enriched,
                   file, opens, md_log, md_ret, news_log, news_ret, clock, args>>

call_fetch_intraday ==
    /\ pc = "call"
    /\ args.fn = "fetch_intraday"
    /\ LET r == fetch_intraday(args.ticker, args.reply)
       IN  IF r.exc
           THEN pc' = "aborted" /\ exc' = "fetch" /\ ret' = ret
           ELSE pc' = "returned" /\ exc' = exc /\ ret' = r.value
    /\ UNCHANGED <<tickers_env, weights_env, tickers, weights, items, port_pct, enriched,
                   file, opens, md_log, md_ret, news_log, news_ret, clock, args>>

NextFn == main_config \/ call_pct_change \/ call_fetch_intraday

SpecFn == InitFn /\ [][NextFn]_vars

-----------------------------------------------------------------------------
(* Properties.                                                             *)

Range(s) == {s[k] : k \in DOMAIN s}

IsDocument(f) == "items" \in DOMAIN f

\* main() has computed the portfolio figure.
Aggregated ==
    pc \in {"news", "write", "done"} \/ (pc = "aborted" /\ exc \in {"news", "write"})

\* The snapshot has a percent change of magnitude at least five.
MeetsThreshold(it) ==
    /\ "pct" \in DOMAIN it
    /\ it.pct # None
    /\ it.pct[2] > 0
    /\ (it.pct[1] >= 5 * it.pct[2] \/ -it.pct[1] >= 5 * it.pct[2])

NonNullPcts == {k \in 1..Len(items) : Get(items[k], "pct") # None}

RECURSIVE DotProduct(_)
DotProduct(k) ==
    IF k = 0 THEN Int2Rat(0)
    ELSE RatAdd(DotProduct(k - 1), RatMul(weights[k], items[k].pct))

RECURSIVE PctTotal(_)
PctTotal(S) ==
    IF S = {} THEN Int2Rat(0)
    ELSE LET k == CHOOSE x \in S : TRUE
         IN  RatAdd(items[k].pct, PctTotal(S \ {k}))

\* C1: every failed market-data fetch (the call raised, returned nothing, or
\* returned no complete candle) is recorded as the error of that ticker's snapshot
\* and never ends the run.
C1_FetchFailureRecorded ==
    /\ exc # "fetch"
    /\ \A k \in 1..Len(md_ret) :
        md_ret[k] # "ok" => k <= Len(items) /\ "error" \in DOMAIN items[k]

\* C2: a written document has one snapshot per resolved ticker, and snapshot i is
\* the snapshot of ticker i.
C2_ItemsMatchTickers ==
    /\ IsDocument(file) =>
        /\ Len(file.items) = Len(file.tickers)
        /\ \A k \in 1..Len(file.items) : file.items[k].ticker = file.tickers[k]
    /\ pc = "done" => IsDocument(file) /\ file.tickers = tickers

C2_Witness ==
    /\ pc = "done"
    /\ \E j, k \in 1..Len(file.items) :
        "error" \in DOMAIN file.items[j] /\ file.items[k].news # <<>>

\* C3: the portfolio percent change is the weighted sum of the percent changes when
\* weights were accepted and no percent change is null, the mean of the non-null
\* percent changes otherwise, and null exactly when every percent change is null.
C3_PortfolioPct ==
    Aggregated =>
        /\ Len(items) = Len(tickers)
        /\ IF weights # None /\ NonNullPcts = 1..Len(items)
           THEN port_pct = DotProduct(Len(items))
           ELSE IF NonNullPcts # {}
           THEN /\ port_pct # None
                /\ RatMul(port_pct, Int2Rat(Cardinality(NonNullPcts))) = PctTotal(NonNullPcts)
           ELSE port_pct = None
        /\ (port_pct = None <=> NonNullPcts = {})
        /\ (pc = "done" => file.portfolio_pct = port_pct)

C3_Witness ==
    /\ pc = "done"
    /\ weights = <<Rat(1, 4), Rat(3, 4)>>
    /\ Get(items[1], "pct") = Int2Rat(-5)
    /\ Get(items[2], "pct") = Int2Rat(4)
    /\ file.portfolio_pct = Rat(7, 4)

\* C4: the news loop queries the news provider for a snapshot exactly when its
\* percent change is non-null and of magnitude at least five; every other snapshot
\* gets an empty news list and is never queried for.
C4_NewsOnlyAtThreshold ==
    /\ \A j \in 1..Len(news_log) : MeetsThreshold(items[news_log[j]])
    /\ \A k \in 1..enriched :
        /\ MeetsThreshold(items[k]) <=>
              Cardinality({j \in 1..Len(news_log) : news_log[j] = k}) = 1
        /\ ~MeetsThreshold(items[k]) => items[k].news = <<>>
    /\ pc = "done" =>
        /\ enriched = Len(tickers)
        /\ \A k \in 1..Len(file.items) :
              MeetsThreshold(file.items[k]) <=> k \in Range(news_log)

C4_Witness ==
    /\ pc = "done"
    /\ \E j, k \in 1..Len(items) :
        /\ j \in Range(news_log)
        /\ Get(items[j], "pct") = Int2Rat(-5)
        /\ k \notin Range(news_log)
        /\ Get(items[k], "pct") = Int2Rat(4)
        /\ items[k].news = <<>>

\* C5, as claimed: no exception of any kind raised in fetch_news_gdelt leaves it;
\* the failed ticker's news is a one-element error list.
C5_NoNewsFailurePropagates ==
    /\ exc # "news"
    /\ \A j \in 1..Len(news_log) :
        news_ret[j] = "raise" => items[news_log[j]].news = <<GdeltError>>

\* C5, amended: an exception raised by the article search is not propagated: the
\* ticker's news is a one-element error list and the loop goes on; the only
\* exception that leaves the news step is raised before any query is sent.
C5_SearchFailureContained ==
    /\ \A j \in 1..Len(news_log) :
        news_ret[j] = "raise" =>
            LET k == news_log[j]
            IN  /\ k <= enriched
                /\ Len(items[k].news) = 1
                /\ DOMAIN items[k].news[1] = {"error"}
    /\ exc = "news" => (enriched + 1) \notin Range(news_log)
    /\ pc = "done" => file.items = items

C5_Witness ==
    /\ pc = "done"
    /\ \E i, j \in 1..Len(news_log) :
        /\ i < j
        /\ news_ret[i] = "raise"
        /\ news_ret[j] = "table"
        /\ file.items[news_log[i]].news = <<GdeltError>>

\* C6: resolving the configuration never raises; the weights are the parsed
\* entries divided by their sum when every entry parses, there are as many as
\* resolved tickers and the sum is positive, and None in every other case.
C6_WeightsResolution ==
    /\ exc # "config"
    /\ pc = "fetch" =>
        LET entries == Split(weights_env)
            parsed == [k \in 1..Len(entries) |-> Float(Strip(entries[k]))]
            numbers == [k \in 1..Len(entries) |-> parsed[k].value]
        IN  IF /\ weights_env # <<>>
               /\ \A k \in 1..Len(entries) : ~parsed[k].exc
               /\ Len(entries) = Len(tickers)
               /\ RatGt(RatSum(numbers), Int2Rat(0))
            THEN /\ weights # None
                 /\ Len(weights) = Len(entries)
                 /\ \A k \in 1..Len(entries) :
                       RatMul(weights[k], RatSum(numbers)) = numbers[k]
            ELSE weights = None

C6_Witness ==
    /\ pc = "fetch"
    /\ weights_env = <<"1", Comma, Space, "3">>
    /\ weights = <<Rat(1, 4), Rat(3, 4)>>

\* C7: a snapshot carries an error exactly when its query brought no complete
\* candle; an error snapshot has no open, last, pct or timestamp and empty news; a
\* snapshot built from a complete candle has them and no error.
C7_ErrorIffNoCandles ==
    /\ \A k \in 1..Len(items) :
        LET it == items[k]
        IN  /\ "error" \in DOMAIN it <=> md_ret[k] \in {"empty", "incomplete"}
            /\ "error" \in DOMAIN it =>
                  /\ DOMAIN it \cap {"open", "last", "pct", "last_timestamp_utc"} = {}
                  /\ "news" \in DOMAIN it => it.news = <<>>
            /\ md_ret[k] = "ok" =>
                  {"open", "last", "pct", "last_timestamp_utc"} \subseteq DOMAIN it
    /\ pc = "done" =>
        /\ file.items = items
        /\ \A k \in 1..Len(items) : "news" \in DOMAIN items[k]

C7_Witness ==
    /\ pc = "done"
    /\ \E i, j, k \in 1..Len(file.items) :
        /\ md_ret[i] = "empty"
        /\ md_ret[j] = "incomplete"
        /\ md_ret[k] = "ok"
        /\ file.items[i].error = NoDataError
        /\ file.items[j].error = NoCandlesError
        /\ "error" \notin DOMAIN file.items[k]

\* C8: pct_change never raises; it returns None when open is None, last is None or
\* open is zero, and (last - open) / open * 100 otherwise; a snapshot whose open is
\* zero or absent, or whose last is absent, has a null or absent pct.
C8_PctChange ==
    /\ exc # "pct_change"
    /\ (pc = "returned" /\ args.fn = "pct_change") =>
        LET o == args.open_price
            l == args.last_price
        IN  IF o = None \/ l = None \/ o = Int2Rat(0) THEN ret = None
            ELSE /\ ret # None
                 /\ ret[2] > 0
                 /\ RatMul(ret, o) = RatMul(RatSub(l, o), Int2Rat(100))
    /\ (pc = "returned" /\ args.fn = "fetch_intraday"
            /\ (Get(ret, "open") \in {None, Int2Rat(0)} \/ Get(ret, "last") = None))
        => Get(ret, "pct") = None

C8_Witness ==
    /\ pc = "returned"
    /\ args.fn = "pct_change"
    /\ args.open_price = Int2Rat(0)
    /\ args.last_price = Int2Rat(95)
    /\ ret = None

\* C9: in any run every entry of the resolved ticker list gets exactly one
\* market-data query, in list order, and no query is ever repeated.
C9_OneQueryPerEntry ==
    /\ Len(md_log) <= Len(tickers)
    /\ \A k \in 1..Len(md_log) : md_log[k] = tickers[k]
    /\ \A i, j \in 1..Len(news_log) : i # j => news_log[i] # news_log[j]
    /\ pc \in {"done", "aborted"} => md_log = tickers

\* C10: data/latest.json is opened for writing at most once, after every market
\* and news query has returned; a run that ends with an exception at an earlier
\* step leaves the previous document in place, and the only document a run puts
\* there is the finished one.
C10_WriteOnceAtEnd ==
    /\ opens <= 1
    /\ opens = 1 =>
        /\ pc \in {"done", "aborted"}
        /\ Len(md_ret) = Len(tickers)
        /\ Len(items) = Len(tickers)
        /\ enriched = Len(items)
    /\ opens = 0 => file = PrevDoc
    /\ exc \in {"config", "fetch", "news"} => file = PrevDoc
    /\ (IsDocument(file) /\ file # PrevDoc) => pc = "done" /\ file.items = items

C10_Witness ==
    /\ pc = "aborted"
    /\ exc = "news"
    /\ enriched >= 1
    /\ Len(news_log) >= 1
    /\ file = PrevDoc

====
